---- MODULE Spec2Model ----
(***************************************************************************)
(* fit_motion: sliding-window accelerometer auto-calibration against GPS   *)
(* speeds (src/src/fit_motion.cc, main and its two readers).               *)
(*                                                                         *)
(* Conventions.  C++ indices are 0-based and kept 0-based in               *)
(* reference_start_idx, the window bounds and the keys of                  *)
(* integrated_velocities; TLA+ sequences are 1-based, so element k of a    *)
(* C++ vector v is v[k + 1] here.  A rotation / acceleration sample is     *)
(* represented by its timestamp (kTimeUsec); a GPS sample is a record      *)
(* [speed_m_s, time_usec].  A double is a non-negative multiple of         *)
(* 1 / Unit that carries MantissaBits significant bits, with               *)
(* round-to-nearest-even after every operation, as IEEE-754 does with 53.  *)
(*                                                                         *)
(* TargetVoltageSmoother (same file, lines 258-352): the steering-spoof    *)
(* offset ramp.  Its uint16_t / int16_t are WordBits wide here, so that    *)
(* UINT16_MAX, INT16_MIN and INT16_MAX are the extremes of a WordBits-bit  *)
(* word and saturation and wrap-around are within reach of the model.      *)
(***************************************************************************)
EXTENDS Integers, Sequences, FiniteSets

\* ------------------------------------------------------------------ bounds
\* Largest number of GPS samples (and of IMU samples) in an input file.
MaxGps == 3
\* Largest value of --locations_batch_size and --locations_shift_step tried.
MaxBatch == 3
\* Largest GPS speed (m/s) in an input file; also the larger iteration budget.
MaxSpeed == 4
\* Significant bits of the modelled double.
MantissaBits == 2
\* Fractional bits of the modelled double: one unit is 2^-FracBits m/s.
FracBits == 2
\* Width in bits of the modelled uint16_t and int16_t.
WordBits == 3
\* Largest max_steering_magnitude tried.
MaxMagnitude == 2
\* Largest steps_per_adjustment_level tried.
MaxSteps == 2

Unit == 2 ^ FracBits

\* ------------------------------------------------------------ arithmetic
Min(a, b) == IF a < b THEN a ELSE b

Abs(a) == IF a < 0 THEN -a ELSE a

RECURSIVE FloorLog2(_)
FloorLog2(m) == IF m < 2 THEN 0 ELSE 1 + FloorLog2(m \div 2)

RECURSIVE ISqrtFrom(_, _)
ISqrtFrom(m, r) == IF (r + 1) * (r + 1) > m THEN r ELSE ISqrtFrom(m, r + 1)

\* The multiple of one unit in the last place nearest to the non-negative
\* rational p / q (in units), ties to the even mantissa.
RoundToNearestEven(p, q) ==
    LET e   == FloorLog2(p \div q)
        ulp == IF e + 1 > MantissaBits THEN 2 ^ (e + 1 - MantissaBits) ELSE 1
        k   == p \div (q * ulp)
        rem == p - k * q * ulp
    IN  IF 2 * rem < q * ulp THEN k * ulp
        ELSE IF 2 * rem > q * ulp THEN (k + 1) * ulp
        ELSE IF k % 2 = 0 THEN k * ulp ELSE (k + 1) * ulp

\* The double nearest to p / q; the operands are evaluated once.
RoundDouble(p, q) ==
    CHOOSE r \in {RoundToNearestEven(a, b) : a \in {p}, b \in {q}} : TRUE

\* double + double.
DoubleAdd(a, b) == RoundDouble(a + b, 1)

\* double / size_t (the count converts to double exactly).
DoubleDiv(a, n) == RoundDouble(a, n)

\* std::accumulate(first, last, init): a left fold of operator+.
RECURSIVE Accumulate(_, _)
Accumulate(s, init) ==
    IF s = <<>> THEN init ELSE Accumulate(Tail(s), DoubleAdd(init, Head(s)))

\* velocity.norm() of an integer 3-vector in m/s, as a double.
Norm(v) ==
    RoundDouble(ISqrtFrom(v[1] * v[1] + v[2] * v[2] + v[3] * v[3], 0) * Unit, 1)

\* ---------------------------------------------------------------- inputs
\* Values of the command-line flags (DEFINE_* at lines 34-76).  paths_set
\* stands for the five file-name flags all being non-empty.
FlagValues ==
    [paths_set : BOOLEAN,
     optimization_iters : {0, 2, MaxSpeed},
     locations_batch_size : 0 .. MaxBatch,
     locations_shift_step : 0 .. MaxBatch,
     post_smoothing_sigma_sec : {0, 1}]

\* A monotonic IMU stream, and the same stream with its first two samples
\* exchanged.
MonotonicStream == [k \in 1 .. MaxGps |-> k - 1]

SwappedStream ==
    [k \in 1 .. MaxGps |-> IF k = 1 THEN 1 ELSE IF k = 2 THEN 0 ELSE k - 1]

\* Contents an IMU JSON file may have.
ImuFiles == {<<>>, MonotonicStream, SwappedStream}

\* Contents the GPS JSON file may have: sample k is taken at time k.
GpsFiles ==
    UNION {[1 .. n -> {1, 2, MaxSpeed}] : n \in 0 .. MaxGps}

GpsSamples(speeds) ==
    [k \in 1 .. Len(speeds) |-> [speed_m_s |-> speeds[k], time_usec |-> k - 1]]

\* ----------------------------------------------------------------- state
VARIABLES
    flags,                \* FLAGS_*: the parsed command line
    pc,                   \* position of main
    files_read,           \* the input files ReadJsonFile has been called on
    rotations,            \* main's rotations vector
    accelerations,        \* main's accelerations vector
    gps_velocities,       \* main's gps_velocities vector
    steering_out,         \* the file FLAGS_steering_out_json
    velocities_out,       \* the file FLAGS_velocities_out_json
    reference_start_idx,  \* the loop variable of the sliding-window loop
    reference_end_idx,    \* end of the current reference_interval
    x,                    \* the solver's parameter vector
    niter,                \* the last return value of solver.minimize
    windows,              \* one entry per window fitted (the LOG(INFO) lines)
    integrated_velocities,\* std::map<size_t, std::vector<double>>
    timestamps_usec,
    timestamps_sec,
    averaged_integrated_velocities,
    smoothed_velocities

pipelineVars ==
    <<flags, pc, files_read, rotations, accelerations, gps_velocities,
      steering_out, velocities_out, reference_start_idx, reference_end_idx,
      x, niter, windows, integrated_velocities, timestamps_usec,
      timestamps_sec, averaged_integrated_velocities, smoothed_velocities>>

\* TargetVoltageSmoother's members, and what its callers have done so far.
VARIABLES
    steering_spoof_settings_,        \* const SteeringSpoofSettings
    voltage_state_,                  \* smoothed voltages and the two offsets
    steps_spent_at_current_offset_,  \* uint16_t
    accepting_commands,   \* FALSE once the last set_target_offset was made
    unchanged_steps,      \* step() calls since current_offset_ last changed,
                          \* counted up to MaxSteps
    held_steps            \* step() calls since current_offset_ came to equal
                          \* a nonzero target_offset_, up to UINT16_MAX

smootherVars ==
    <<steering_spoof_settings_, voltage_state_,
      steps_spent_at_current_offset_, accepting_commands, unchanged_steps,
      held_steps>>

vars == <<pipelineVars, smootherVars>>

inputVars == <<rotations, accelerations, gps_velocities>>

loopVars ==
    <<reference_start_idx, reference_end_idx, x, niter, windows,
      integrated_velocities>>

averagingVars ==
    <<timestamps_usec, timestamps_sec, averaged_integrated_velocities,
      smoothed_velocities>>

outputVars == <<steering_out, velocities_out>>

NoFile == [written |-> FALSE, data |-> <<>>]

\* Eigen::VectorXd::Zero(9).
Zero9 == [k \in 1 .. 9 |-> 0]

\* ------------------------------------------------------- main, lines 114-124
\* SanityChecksPass without CHECK_GE(batch size, shift step), line 123.
SanityChecksPass_NoStepCheck(f) ==
    /\ f.paths_set
    /\ f.optimization_iters > 0
    /\ f.locations_batch_size > 0
    /\ f.locations_shift_step > 0
    /\ f.post_smoothing_sigma_sec > 0

\* The CHECKs of the "Sanity checks" block all pass.
SanityChecksPass(f) ==
    /\ f.paths_set
    /\ f.optimization_iters > 0
    /\ f.locations_batch_size > 0
    /\ f.locations_shift_step > 0
    /\ f.locations_batch_size >= f.locations_shift_step
    /\ f.post_smoothing_sigma_sec > 0

SanityChecks ==
    /\ pc = "sanity_checks"
    /\ pc' = IF SanityChecksPass(flags) THEN "read_rotations" ELSE "aborted"
    /\ UNCHANGED smootherVars
    /\ UNCHANGED <<flags, files_read, inputVars, outputVars, loopVars,
                   averagingVars>>

\* ------------------------------------------------- readers, lines 79-106
\* CHECK(!entries_list.empty()) of ReadTimestamp3DData.
Timestamp3DDataOk(entries_list) == entries_list # <<>>

\* GpsVelocitiesOk without the CHECK of line 99.
GpsVelocitiesOk_Unchecked(locations_json) == TRUE

\* CHECK(!locations_json.empty()) of ReadGpsVelocities.
GpsVelocitiesOk(locations_json) == locations_json # <<>>

ReadRotations ==
    /\ pc = "read_rotations"
    /\ \E entries_list \in ImuFiles :
          /\ files_read' = files_read \cup {"rotations_json"}
          /\ IF Timestamp3DDataOk(entries_list)
             THEN rotations' = entries_list /\ pc' = "read_accelerations"
             ELSE rotations' = rotations /\ pc' = "aborted"
    /\ UNCHANGED smootherVars
    /\ UNCHANGED <<flags, accelerations, gps_velocities, outputVars, loopVars,
                   averagingVars>>

ReadAccelerations ==
    /\ pc = "read_accelerations"
    /\ \E entries_list \in ImuFiles :
          /\ files_read' = files_read \cup {"accelerations_json"}
          /\ IF Timestamp3DDataOk(entries_list)
             THEN accelerations' = entries_list /\ pc' = "read_gps"
             ELSE accelerations' = accelerations /\ pc' = "aborted"
    /\ UNCHANGED smootherVars
    /\ UNCHANGED <<flags, rotations, gps_velocities, outputVars, loopVars,
                   averagingVars>>

ReadGps ==
    /\ pc = "read_gps"
    /\ \E speeds \in GpsFiles :
          /\ files_read' = files_read \cup {"locations_json"}
          /\ IF GpsVelocitiesOk(speeds)
             THEN gps_velocities' = GpsSamples(speeds) /\ pc' = "steering"
             ELSE gps_velocities' = gps_velocities /\ pc' = "aborted"
    /\ UNCHANGED smootherVars
    /\ UNCHANGED <<flags, rotations, accelerations, outputVars, loopVars,
                   averagingVars>>

\* ------------------------------------------------------ main, lines 136-153
\* GetHorizontalTurnAngles: one angle per rotation sample (the angle itself
\* is left abstract: the running sample count).
GetHorizontalTurnAngles(rot) == [k \in 1 .. Len(rot) |-> k - 1]

\* JsonWriteTimestampedRealData: the (timestamp, value) pairs written.
JsonWriteTimestampedRealData(times, values) ==
    [written |-> TRUE,
     data |-> [k \in 1 .. Len(times) |-> <<times[k], values[k]>>]]

WriteSteering ==
    /\ pc = "steering"
    /\ LET steering_angles == GetHorizontalTurnAngles(rotations)
       IN  IF Len(steering_angles) = Len(rotations)
           THEN /\ steering_out' =
                       JsonWriteTimestampedRealData(rotations, steering_angles)
                /\ pc' = "loop"
           ELSE /\ steering_out' = steering_out
                /\ pc' = "aborted"
    /\ UNCHANGED smootherVars
    /\ UNCHANGED <<flags, files_read, inputVars, velocities_out, loopVars,
                   averagingVars>>

\* ------------------------------------- calibration/velocity.hpp (collaborator)
\* Timestamps are in non-decreasing order.
TimeSeriesMonotonic(s) == \A k \in 1 .. Len(s) - 1 : s[k] <= s[k + 1]

\* The AccelerometerCalibrator constructor merges the rotation and
\* acceleration streams; the merge fails on an empty or unordered stream.
CalibratorBuilds(rot, acc) ==
    /\ rot # <<>>
    /\ acc # <<>>
    /\ TimeSeriesMonotonic(rot)
    /\ TimeSeriesMonotonic(acc)

\* Number of entries of the merged timeline (identical-index pairing).
MergedSize(rot, acc) == Min(Len(rot), Len(acc))

\* ImuTimes().MergedEventTimeUsec(i), i 0-based.
MergedEventTimeUsec(rot, i) == rot[i + 1]

\* solver.minimize(calibrator, x, fx): descent from x0 towards the speed that
\* fits the window's reference velocities, one unit of initial velocity per
\* iteration, stopped by convergence or by max_iterations.  The biases stay
\* where they start.
Minimize(interval, x0, max_iterations) ==
    LET target == interval[1].speed_m_s
        dist   == Abs(target - x0[7])
        steps  == Min(dist, max_iterations)
        reached == IF target >= x0[7] THEN x0[7] + steps ELSE x0[7] - steps
    IN  [x |-> [x0 EXCEPT ![7] = reached],
         niter |-> steps,
         fx |-> (target - reached) * (target - reached),
         converged |-> dist <= max_iterations]

\* calibrator.IntegrateTrajectory: the integrated velocity at every merged
\* index whose time lies in the window's time span.  Accelerometer readings
\* are zero, so the corrected acceleration is minus the two biases.
IntegrateTrajectory(interval, rot, acc, global_bias, local_bias, initial_velocity) ==
    IF interval = <<>> THEN <<>>
    ELSE
    LET t0 == interval[1].time_usec
        t1 == interval[Len(interval)].time_usec
        covered == {i \in 0 .. MergedSize(rot, acc) - 1 :
                       /\ t0 <= MergedEventTimeUsec(rot, i)
                       /\ MergedEventTimeUsec(rot, i) <= t1}
    IN  [i \in covered |->
            [velocity |->
                [c \in 1 .. 3 |->
                    initial_velocity[c]
                    - (global_bias[c] + local_bias[c])
                      * (MergedEventTimeUsec(rot, i) - t0)]]]

\* ------------------------------------------------------ main, lines 157-208
\* LoopContinues that only admits windows of full size.
LoopContinues_FullWindowsOnly(start, n) ==
    start + flags.locations_batch_size <= n

\* The loop condition, line 168.
LoopContinues(start, n) == start < n

\* ReferenceEndIdx with an inclusive end taken for an exclusive one.
ReferenceEndIdx_OffByOne(start, batch_size, n) ==
    Min(start + batch_size - 1, n)

\* reference_end_idx, lines 170-172 (size_t arithmetic: with start < n and a
\* batch size below 2^63 the sum cannot wrap).
ReferenceEndIdx(start, batch_size, n) == Min(start + batch_size, n)

\* reference_interval, lines 173-175.
ReferenceInterval(gps, start, end) == SubSeq(gps, start + 1, end)

\* NextStartIdx as ++reference_start_idx.
NextStartIdx_ByOne(start, shift_step) == start + 1

\* NextStartIdx that advances by the window size (windows do not overlap).
NextStartIdx_ByBatch(start, shift_step) == start + flags.locations_batch_size

\* The loop increment, line 169.
NextStartIdx(start, shift_step) == start + shift_step

\* InitialX that lets x live across iterations (a warm start).
InitialX_WarmStart(previous_x) == previous_x

\* The starting point of every fit, line 182: it does not read the previous
\* window's x.
InitialX(previous_x) == Zero9

\* FittedX that keeps the fit only when the solver converged.
FittedX_DropUnconverged(result) ==
    IF result.converged THEN result.x ELSE Zero9

\* The vector handed on to IntegrateTrajectory, lines 191-193: whatever
\* minimize left in x; niter is only logged.
FittedX(result) == result.x

\* StoreVelocities that assigns the new estimate instead of appending it.
StoreVelocities_Overwrite(iv, trajectory) ==
    [i \in (DOMAIN iv) \cup (DOMAIN trajectory) |->
        IF i \in DOMAIN trajectory
        THEN <<Norm(trajectory[i].velocity)>>
        ELSE iv[i]]

\* Lines 204-207: push_back of every point's velocity norm.
StoreVelocities(iv, trajectory) ==
    [i \in (DOMAIN iv) \cup (DOMAIN trajectory) |->
        IF i \in DOMAIN trajectory
        THEN Append(IF i \in DOMAIN iv THEN iv[i] ELSE <<>>,
                    Norm(trajectory[i].velocity))
        ELSE iv[i]]

\* The trajectory of the window [start, end) fitted to x.
WindowTrajectory(start, end, fitted) ==
    IntegrateTrajectory(ReferenceInterval(gps_velocities, start, end),
                        rotations, accelerations,
                        <<fitted[1], fitted[2], fitted[3]>>,
                        <<fitted[4], fitted[5], fitted[6]>>,
                        <<fitted[7], fitted[8], fitted[9]>>)

\* Lines 170-179: the window that starts at start, and its calibrator.
EnterWindow(start) ==
    /\ reference_start_idx' = start
    /\ reference_end_idx' =
           ReferenceEndIdx(start, flags.locations_batch_size,
                           Len(gps_velocities))
    /\ pc' = IF CalibratorBuilds(rotations, accelerations)
             THEN "fit" ELSE "aborted"

\* Lines 167-179: the loop test, the window and its calibrator.
WindowBegin ==
    /\ pc = "loop"
    /\ IF LoopContinues(reference_start_idx, Len(gps_velocities))
       THEN EnterWindow(reference_start_idx)
       ELSE /\ pc' = "merge"
            /\ UNCHANGED <<reference_start_idx, reference_end_idx>>
    /\ UNCHANGED smootherVars
    /\ UNCHANGED <<flags, files_read, inputVars, outputVars, x, niter,
                   windows, integrated_velocities, averagingVars>>

\* Lines 181-187: the fit and its log line.
WindowFit ==
    /\ pc = "fit"
    /\ LET result ==
               Minimize(ReferenceInterval(gps_velocities, reference_start_idx,
                                          reference_end_idx),
                        InitialX(x), flags.optimization_iters)
       IN  /\ x' = FittedX(result)
           /\ niter' = result.niter
           /\ windows' = Append(windows,
                                [start |-> reference_start_idx,
                                 end |-> reference_end_idx,
                                 niter |-> result.niter,
                                 fx |-> result.fx,
                                 converged |-> result.converged])
    /\ pc' = "store"
    /\ UNCHANGED smootherVars
    /\ UNCHANGED <<flags, files_read, inputVars, outputVars,
                   reference_start_idx, reference_end_idx,
                   integrated_velocities, averagingVars>>

\* Lines 189-208: integrate with the fitted vector and store the norms; the
\* loop then goes on from next_start.
StoreWindow(next_start) ==
    /\ pc = "store"
    /\ integrated_velocities' =
           StoreVelocities(integrated_velocities,
                           WindowTrajectory(reference_start_idx,
                                            reference_end_idx, x))
    /\ reference_start_idx' = next_start
    /\ pc' = "loop"
    /\ UNCHANGED smootherVars
    /\ UNCHANGED <<flags, files_read, inputVars, outputVars,
                   reference_end_idx, x, niter, windows, averagingVars>>

\* Lines 189-208 and the increment of line 169.
WindowStore ==
    StoreWindow(NextStartIdx(reference_start_idx, flags.locations_shift_step))

\* ------------------------------------------------------ main, lines 210-241
\* SortedKeys for a map ordered by std::greater.
RECURSIVE SortedKeys_Descending(_)
SortedKeys_Descending(keys) ==
    IF keys = {} THEN <<>>
    ELSE LET most == CHOOSE k \in keys : \A other \in keys : k >= other
         IN  <<most>> \o SortedKeys_Descending(keys \ {most})

\* The keys of a std::map in iteration (ascending) order.
RECURSIVE SortedKeys(_)
SortedKeys(keys) ==
    IF keys = {} THEN <<>>
    ELSE LET least == CHOOSE k \in keys : \A other \in keys : k <= other
         IN  <<least>> \o SortedKeys(keys \ {least})

\* AverageVelocity whose sum starts one element late.
AverageVelocity_SkipFirst(estimates) ==
    DoubleDiv(Accumulate(Tail(estimates), 0), Len(estimates))

\* Lines 227-230: the sum by std::accumulate from 0.0, divided by the count.
AverageVelocity(estimates) ==
    DoubleDiv(Accumulate(estimates, 0), Len(estimates))

\* slam/smoothing.hpp (collaborator): every output point is the weighted
\* mean of all input points; the weight falls with the time distance
\* measured in sigmas.
KernelWeight(dt, sigma) ==
    IF dt = 0 THEN 4
    ELSE IF Abs(dt) <= sigma THEN 2
    ELSE IF Abs(dt) <= 2 * sigma THEN 1
    ELSE 0

RECURSIVE WeightedSum(_, _, _, _, _)
WeightedSum(values, times, t, sigma, k) ==
    IF k = 0 THEN [sum |-> 0, weight |-> 0]
    ELSE LET rest == WeightedSum(values, times, t, sigma, k - 1)
             w == KernelWeight(times[k] - t, sigma)
         IN  [sum |-> rest.sum + w * values[k], weight |-> rest.weight + w]

SmoothTimeSeries(values, times, out_times, sigma) ==
    [k \in 1 .. Len(out_times) |->
        LET total == WeightedSum(values, times, out_times[k], sigma, Len(values))
        IN  RoundDouble(total.sum, total.weight)]

\* Lines 210-214: the calibrator over all GPS samples, built for its merged
\* timeline.
BuildMergedCalibrator ==
    /\ pc = "merge"
    /\ pc' = IF CalibratorBuilds(rotations, accelerations)
             THEN "average" ELSE "aborted"
    /\ UNCHANGED smootherVars
    /\ UNCHANGED <<flags, files_read, inputVars, outputVars, loopVars,
                   averagingVars>>

\* Lines 216-231: one output entry per key of integrated_velocities.  The
\* relative times stay in microseconds (the factor 1e-6 is not applied).
Average ==
    /\ pc = "average"
    /\ LET keys == SortedKeys(DOMAIN integrated_velocities)
           usec == [k \in 1 .. Len(keys) |->
                       MergedEventTimeUsec(rotations, keys[k])]
       IN  /\ timestamps_usec' = usec
           /\ timestamps_sec' = [k \in 1 .. Len(keys) |-> usec[k] - usec[1]]
           /\ averaged_integrated_velocities' =
                  [k \in 1 .. Len(keys) |->
                      AverageVelocity(integrated_velocities[keys[k]])]
    /\ pc' = "smooth"
    /\ UNCHANGED smootherVars
    /\ UNCHANGED <<flags, files_read, inputVars, outputVars, loopVars,
                   smoothed_velocities>>

\* Lines 232-235.
Smooth ==
    /\ pc = "smooth"
    /\ smoothed_velocities' =
           SmoothTimeSeries(averaged_integrated_velocities, timestamps_sec,
                            timestamps_sec, flags.post_smoothing_sigma_sec)
    /\ pc' = "write_velocities"
    /\ UNCHANGED smootherVars
    /\ UNCHANGED <<flags, files_read, inputVars, outputVars, loopVars,
                   timestamps_usec, timestamps_sec,
                   averaged_integrated_velocities>>

\* Lines 237-241.
WriteVelocities ==
    /\ pc = "write_velocities"
    /\ velocities_out' =
           JsonWriteTimestampedRealData(timestamps_usec, smoothed_velocities)
    /\ pc' = "done"
    /\ UNCHANGED smootherVars
    /\ UNCHANGED <<flags, files_read, inputVars, steering_out, loopVars,
                   averagingVars>>

\* ------------------------------------- TargetVoltageSmoother, lines 258-352
UINT16_MAX == 2 ^ WordBits - 1
INT16_MAX == 2 ^ (WordBits - 1) - 1
INT16_MIN == -(2 ^ (WordBits - 1))

Uint16 == 0 .. UINT16_MAX
Int16 == INT16_MIN .. INT16_MAX

\* Conversion of an int to uint16_t and to int16_t.
ToUint16(v) == v % (UINT16_MAX + 1)
ToInt16(v) ==
    LET u == ToUint16(v) IN IF u > INT16_MAX THEN u - (UINT16_MAX + 1) ELSE u

Max(a, b) == IF a > b THEN a ELSE b

\* Arduino's constrain(amt, low, high).
Constrain(amt, low, high) ==
    IF amt < low THEN low ELSE IF amt > high THEN high ELSE amt

\* smooth_voltage, lines 258-264.
SmoothVoltage(old_smooth_voltage, new_voltage, voltage_update_hystheresis) ==
    IF Max(old_smooth_voltage, new_voltage)
           - Min(old_smooth_voltage, new_voltage) > voltage_update_hystheresis
    THEN new_voltage
    ELSE old_smooth_voltage

\* add_offset without the two range tests: base + offset as a uint16_t.
AddOffset_Wrapping(base, offset) == ToUint16(base + offset)

\* add_offset, lines 266-274.
AddOffset(base, offset) ==
    IF offset = 0 THEN base
    ELSE IF offset > 0
         THEN IF UINT16_MAX - base > offset
              THEN ToUint16(base + offset) ELSE UINT16_MAX
         ELSE IF base > -offset THEN ToUint16(base + offset) ELSE 0

\* The values the settings are tried with.  steps_at_target_level also takes
\* UINT16_MAX - 1, so that the sum of line 310 reaches UINT16_MAX.
SettingsValues ==
    [max_steering_magnitude : 0 .. MaxMagnitude,
     steps_per_adjustment_level : 0 .. MaxSteps,
     steps_at_target_level : {0, MaxSteps, UINT16_MAX - 1},
     voltage_update_hystheresis : {0, UINT16_MAX}]

\* The readings update_measurments is called with.
InstantVoltageData == [blue_voltage : {0, UINT16_MAX},
                       green_voltage : {0, UINT16_MAX}]

\* The members after construction, lines 277-279: all zero.
ZeroVoltageState ==
    [smoothed_blue_voltage_ |-> 0, smoothed_green_voltage_ |-> 0,
     current_offset_ |-> 0, target_offset_ |-> 0]

\* Line 282 without constrain().
ClampedTarget_Unclamped(new_target_offset, settings) == new_target_offset

\* The value stored by lines 282-284.
ClampedTarget(new_target_offset, settings) ==
    ToInt16(Constrain(new_target_offset, -settings.max_steering_magnitude,
                      settings.max_steering_magnitude))

\* Lines 286-288 leaving the step counter as it is.
RestartedSteps_Kept(steps, settings) == steps

\* The step counter after lines 286-288.
RestartedSteps(steps, settings) ==
    Min(steps, settings.steps_per_adjustment_level)

\* The step counter after lines 294-296.
StepsAfterTick(steps) == IF steps < UINT16_MAX THEN steps + 1 ELSE steps

\* The test of line 299 with >= for >.
AdjustmentDue_Inclusive(steps, settings) ==
    steps >= settings.steps_per_adjustment_level

\* The test of lines 299-300.
AdjustmentDue(steps, settings) ==
    steps > settings.steps_per_adjustment_level

\* The test of lines 309-311 with < for >.
ResetDue_Inverted(steps, settings) ==
    steps < settings.steps_at_target_level
                + settings.steps_per_adjustment_level

\* The test of lines 309-311.
ResetDue(steps, settings) ==
    steps > settings.steps_at_target_level
                + settings.steps_per_adjustment_level

\* current_offset_ equals a nonzero target_offset_.
Holding(state) ==
    state.target_offset_ = state.current_offset_ /\ state.target_offset_ # 0

\* set_target_offset, lines 281-290; the caller may make it its last command.
SetTargetOffset ==
    /\ accepting_commands
    /\ \E new_target_offset \in Int16 :
          LET target == ClampedTarget(new_target_offset,
                                      steering_spoof_settings_)
              state == [voltage_state_ EXCEPT !.target_offset_ = target]
          IN  /\ voltage_state_' = state
              /\ steps_spent_at_current_offset_' =
                     IF target = voltage_state_.current_offset_
                     THEN RestartedSteps(steps_spent_at_current_offset_,
                                         steering_spoof_settings_)
                     ELSE steps_spent_at_current_offset_
              /\ held_steps' = 0
    /\ accepting_commands' \in BOOLEAN
    /\ UNCHANGED <<steering_spoof_settings_, unchanged_steps>>
    /\ UNCHANGED pipelineVars

\* step, lines 292-316.
Step ==
    LET steps == StepsAfterTick(steps_spent_at_current_offset_)
        target == voltage_state_.target_offset_
        current == voltage_state_.current_offset_
    IN  /\ IF target # current
           THEN IF AdjustmentDue(steps, steering_spoof_settings_)
                THEN LET moved ==
                             ToInt16(current + IF target > current THEN 1 ELSE -1)
                     IN  /\ voltage_state_' =
                                [voltage_state_ EXCEPT !.current_offset_ = moved]
                         /\ steps_spent_at_current_offset_' = 0
                         /\ unchanged_steps' = 0
                         /\ held_steps' = 0
                ELSE /\ voltage_state_' = voltage_state_
                     /\ steps_spent_at_current_offset_' = steps
                     /\ unchanged_steps' = Min(unchanged_steps + 1, MaxSteps)
                     /\ held_steps' = 0
           ELSE /\ voltage_state_' =
                       IF target # 0 /\ ResetDue(steps, steering_spoof_settings_)
                       THEN [voltage_state_ EXCEPT !.target_offset_ = 0]
                       ELSE voltage_state_
                /\ steps_spent_at_current_offset_' = steps
                /\ unchanged_steps' = Min(unchanged_steps + 1, MaxSteps)
                /\ held_steps' =
                       IF Holding(voltage_state_')
                       THEN Min(held_steps + 1, UINT16_MAX) ELSE 0
        /\ UNCHANGED <<steering_spoof_settings_, accepting_commands>>
        /\ UNCHANGED pipelineVars

\* update_measurments, lines 318-326.
UpdateMeasurments ==
    /\ \E voltage_data \in InstantVoltageData :
          voltage_state_' =
              [voltage_state_ EXCEPT
                  !.smoothed_blue_voltage_ =
                      SmoothVoltage(@, voltage_data.blue_voltage,
                          steering_spoof_settings_.voltage_update_hystheresis),
                  !.smoothed_green_voltage_ =
                      SmoothVoltage(@, voltage_data.green_voltage,
                          steering_spoof_settings_.voltage_update_hystheresis)]
    /\ UNCHANGED <<steering_spoof_settings_, steps_spent_at_current_offset_,
                   accepting_commands, unchanged_steps, held_steps>>
    /\ UNCHANGED pipelineVars

\* The getters, lines 328-352.
GetSmoothedBlueVoltage == voltage_state_.smoothed_blue_voltage_
GetSmoothedGreenVoltage == voltage_state_.smoothed_green_voltage_
GetTargetBlueVoltage ==
    AddOffset(voltage_state_.smoothed_blue_voltage_,
              ToInt16(-voltage_state_.current_offset_))
GetTargetGreenVoltage ==
    AddOffset(voltage_state_.smoothed_green_voltage_,
              voltage_state_.current_offset_)
GetCurrentOffset == voltage_state_.current_offset_
GetTargetOffset == voltage_state_.current_offset_

\* ----------------------------------------------------------- specification
\* main before its first statement, for the given flags.
PipelineInit(flag_values) ==
    /\ flags \in flag_values
    /\ pc = "sanity_checks"
    /\ files_read = {}
    /\ rotations = <<>>
    /\ accelerations = <<>>
    /\ gps_velocities = <<>>
    /\ steering_out = NoFile
    /\ velocities_out = NoFile
    /\ reference_start_idx = 0
    /\ reference_end_idx = 0
    /\ x = Zero9
    /\ niter = 0
    /\ windows = <<>>
    /\ integrated_velocities = <<>>
    /\ timestamps_usec = <<>>
    /\ timestamps_sec = <<>>
    /\ averaged_integrated_velocities = <<>>
    /\ smoothed_velocities = <<>>

\* The smoother after its constructor, for the given settings.
SmootherInit(settings_values) ==
    /\ steering_spoof_settings_ \in settings_values
    /\ voltage_state_ = ZeroVoltageState
    /\ steps_spent_at_current_offset_ = 0
    /\ accepting_commands = TRUE
    /\ unchanged_steps = 0
    /\ held_steps = 0

\* No flag set and all settings zero: the program that is not being run.
NoFlags ==
    [paths_set |-> FALSE, optimization_iters |-> 0, locations_batch_size |-> 0,
     locations_shift_step |-> 0, post_smoothing_sigma_sec |-> 0]
NoSettings ==
    [max_steering_magnitude |-> 0, steps_per_adjustment_level |-> 0,
     steps_at_target_level |-> 0, voltage_update_hystheresis |-> 0]

Init == PipelineInit(FlagValues) /\ SmootherInit({NoSettings})

Next ==
    \/ SanityChecks
    \/ ReadRotations
    \/ ReadAccelerations
    \/ ReadGps
    \/ WriteSteering
    \/ WindowBegin
    \/ WindowFit
    \/ WindowStore
    \/ BuildMergedCalibrator
    \/ Average
    \/ Smooth
    \/ WriteVelocities

Spec == Init /\ [][Next]_vars

\* main is one sequential thread: whenever a step is possible it is taken.
FairSpec == Spec /\ WF_vars(Next)

\* The smoother under any sequence of calls of its three methods.
SmootherStart == PipelineInit({NoFlags}) /\ SmootherInit(SettingsValues)

SmootherNext ==
    \/ SetTargetOffset
    \/ Step
    \/ UpdateMeasurments

SmootherSpec == SmootherStart /\ [][SmootherNext]_vars

\* The caller keeps calling step().
SmootherFairSpec == SmootherSpec /\ WF_vars(Step)

\* ------------------------------------------- the same windows, in any order
\* The start indices the loop of lines 167-169 visits.
WindowStarts ==
    {s \in 0 .. Len(gps_velocities) - 1 : s % flags.locations_shift_step = 0}

\* The windows not fitted yet.
PendingStarts ==
    WindowStarts \ {windows[k].start : k \in 1 .. Len(windows)}

\* The loop body of lines 170-179 entered for any window not fitted yet.
AnyWindowBegin ==
    /\ pc = "loop"
    /\ IF PendingStarts # {}
       THEN \E s \in PendingStarts : EnterWindow(s)
       ELSE /\ pc' = "merge"
            /\ UNCHANGED <<reference_start_idx, reference_end_idx>>
    /\ UNCHANGED smootherVars
    /\ UNCHANGED <<flags, files_read, inputVars, outputVars, x, niter,
                   windows, integrated_velocities, averagingVars>>

\* Lines 189-208 for that window; the next one is chosen by AnyWindowBegin.
AnyWindowStore == StoreWindow(reference_start_idx)

AnyOrderNext ==
    \/ SanityChecks
    \/ ReadRotations
    \/ ReadAccelerations
    \/ ReadGps
    \/ WriteSteering
    \/ AnyWindowBegin
    \/ WindowFit
    \/ AnyWindowStore
    \/ BuildMergedCalibrator
    \/ Average
    \/ Smooth
    \/ WriteVelocities

AnyOrderSpec == Init /\ [][AnyOrderNext]_vars

\* ------------------------------------------------------------------ claims
LoopFinished == pc \in {"merge", "average", "smooth", "write_velocities", "done"}

Averaged == pc \in {"smooth", "write_velocities", "done"}

NumGps == Len(gps_velocities)

CeilDiv(a, b) == (a + b - 1) \div b

\* C1.  Coverage: once the sliding-window loop has finished, every GPS sample
\* index in [0, n) lies in [start, end) of at least one processed window.
C1_Coverage ==
    LoopFinished =>
        \A i \in 0 .. NumGps - 1 :
            \E k \in 1 .. Len(windows) :
                windows[k].start <= i /\ i < windows[k].end

C1_Witness ==
    /\ pc = "merge"
    /\ NumGps = 3
    /\ flags.locations_batch_size = 2
    /\ flags.locations_shift_step = 2
    /\ Len(windows) = 2

\* C2.  Termination: the sliding-window loop, once entered, is left (to the
\* merge step, or by a fatal error), and when it is left normally it has
\* processed exactly ceil(n / stride) windows.
C2_Termination ==
    /\ (pc = "loop") ~> (pc \in {"merge", "aborted"})
    /\ [](LoopFinished =>
            Len(windows) = CeilDiv(NumGps, flags.locations_shift_step))

C2_Witness ==
    /\ pc = "merge"
    /\ NumGps = 3
    /\ flags.locations_shift_step = 2
    /\ flags.locations_batch_size = 3
    /\ Len(windows) = 2

\* Every key of integrated_velocities holds exactly one estimate and its
\* average is that estimate.
SingleEstimates ==
    LET keys == SortedKeys(DOMAIN integrated_velocities)
    IN  /\ Len(averaged_integrated_velocities) = Len(keys)
        /\ \A k \in 1 .. Len(keys) :
              /\ Len(integrated_velocities[keys[k]]) = 1
              /\ averaged_integrated_velocities[k] =
                     integrated_velocities[keys[k]][1]

\* C3 as stated.  Boundary scenario: with exactly window_size GPS samples and
\* any valid stride, exactly one window is processed and every key has one
\* estimate, which is its mean.
C3_OneWindowAnyStride ==
    (Averaged /\ NumGps = flags.locations_batch_size) =>
        (Len(windows) = 1 /\ SingleEstimates)

\* C3 as amended.  Boundary scenario: with exactly window_size GPS samples and
\* stride = window_size, exactly one window is processed and every key has
\* one estimate, which is its mean.
C3_OneWindowFullStride ==
    (/\ Averaged
     /\ NumGps = flags.locations_batch_size
     /\ flags.locations_shift_step = flags.locations_batch_size) =>
        (Len(windows) = 1 /\ SingleEstimates)

C3_Witness ==
    /\ pc = "smooth"
    /\ NumGps = 3
    /\ flags.locations_batch_size = 3
    /\ flags.locations_shift_step = 3
    /\ Cardinality(DOMAIN integrated_velocities) = 3

\* C4 as stated.  No partial output: a run never has aborted with exactly one
\* of the two output files written, and a completed run has written both.
C4_NoPartialOutput ==
    /\ pc = "aborted" => (steering_out.written = velocities_out.written)
    /\ pc = "done" => (steering_out.written /\ velocities_out.written)

\* The configurations C5 names.
ConfigInvalid ==
    \/ flags.locations_batch_size <= 0
    \/ flags.locations_shift_step <= 0
    \/ flags.locations_shift_step > flags.locations_batch_size
    \/ flags.optimization_iters <= 0
    \/ flags.post_smoothing_sigma_sec <= 0

\* C5.  Configuration errors are fail-fast: with an invalid configuration the
\* run goes from the sanity checks straight to the abort; no input is read,
\* no window fitted, no output written.
C5_ConfigFailFast ==
    ConfigInvalid =>
        /\ pc \in {"sanity_checks", "aborted"}
        /\ files_read = {}
        /\ windows = <<>>
        /\ ~steering_out.written
        /\ ~velocities_out.written

C5_Witness ==
    /\ pc = "aborted"
    /\ flags.paths_set
    /\ flags.optimization_iters > 0
    /\ flags.post_smoothing_sigma_sec > 0
    /\ flags.locations_batch_size = 1
    /\ flags.locations_shift_step = 2

\* The stream read from a file was empty.
ReadEmpty(file, stream) == file \in files_read /\ stream = <<>>

\* C6.  Data errors are fatal before optimization: an empty rotation,
\* acceleration or GPS stream aborts the run in its reader, and an unordered
\* rotation or acceleration stream lets no window be fitted: the run aborts
\* when the first window's calibrator is built.
C6_DataErrorsFatal ==
    /\ (\/ ReadEmpty("rotations_json", rotations)
        \/ ReadEmpty("accelerations_json", accelerations)
        \/ ReadEmpty("locations_json", gps_velocities)) =>
            (pc = "aborted" /\ windows = <<>>)
    /\ (~TimeSeriesMonotonic(rotations) \/ ~TimeSeriesMonotonic(accelerations)) =>
            /\ windows = <<>>
            /\ pc \in {"read_accelerations", "read_gps", "steering", "loop",
                       "aborted"}
            /\ (pc = "loop" => reference_start_idx = 0)

C6_Witness ==
    /\ pc = "aborted"
    /\ files_read = {"rotations_json", "accelerations_json", "locations_json"}
    /\ gps_velocities # <<>>
    /\ TimeSeriesMonotonic(rotations)
    /\ ~TimeSeriesMonotonic(accelerations)

\* The vector the solver leaves for the current window when started from zero.
BestFound ==
    Minimize(ReferenceInterval(gps_velocities, reference_start_idx,
                               reference_end_idx),
             Zero9, flags.optimization_iters)

\* C7.  Non-convergence is non-fatal: a fit that exhausts its iteration budget
\* is followed by the store step, which integrates the trajectory with the
\* best-found vector, appends its magnitudes and moves on to the next window.
C7_NonConvergenceNonFatal ==
    [][/\ pc = "fit" => pc' = "store"
       /\ (pc = "store" /\ ~BestFound.converged) =>
             /\ x = BestFound.x
             /\ integrated_velocities' =
                    StoreVelocities(integrated_velocities,
                                    WindowTrajectory(reference_start_idx,
                                                     reference_end_idx,
                                                     BestFound.x))
             /\ reference_start_idx' =
                    reference_start_idx + flags.locations_shift_step
             /\ pc' = "loop"]_vars

C7_Witness ==
    /\ pc = "done"
    /\ Len(windows) = 3
    /\ ~windows[1].converged
    /\ windows[2].converged
    /\ ~windows[3].converged

\* The processed windows whose integrated trajectory contains index i.
WindowsContaining(i) ==
    {k \in 1 .. Len(windows) :
        i \in DOMAIN WindowTrajectory(windows[k].start, windows[k].end, Zero9)}

\* C8.  PerTimestampEstimates is append-only and counts covering windows: a
\* step keeps every key and every stored estimate in place, and after the
\* loop each key holds as many estimates as processed windows contained it
\* (and every index some window contained is a key).
C8_AppendOnlyCounts ==
    /\ [][\A i \in DOMAIN integrated_velocities :
            /\ i \in DOMAIN integrated_velocities'
            /\ Len(integrated_velocities'[i]) >= Len(integrated_velocities[i])
            /\ SubSeq(integrated_velocities'[i], 1,
                      Len(integrated_velocities[i])) = integrated_velocities[i]]_vars
    /\ [](LoopFinished =>
            /\ \A i \in DOMAIN integrated_velocities :
                  Len(integrated_velocities[i]) = Cardinality(WindowsContaining(i))
            /\ \A i \in 0 .. MergedSize(rotations, accelerations) - 1 :
                  WindowsContaining(i) # {} => i \in DOMAIN integrated_velocities)

C8_Witness ==
    /\ pc = "merge"
    /\ 2 \in DOMAIN integrated_velocities
    /\ Len(integrated_velocities[2]) = 3
    /\ Len(integrated_velocities[0]) = 1

\* The estimate list of merged index i (empty when i is no key).
EstimatesAt(i) ==
    IF i \in DOMAIN integrated_velocities THEN integrated_velocities[i] ELSE <<>>

\* What the window starting at s contributes when it is fitted on its own,
\* from the zero vector: its trajectory's velocity norms.
OwnContribution(s) ==
    LET end == ReferenceEndIdx(s, flags.locations_batch_size, NumGps)
        fit == Minimize(ReferenceInterval(gps_velocities, s, end), Zero9,
                        flags.optimization_iters)
        trajectory == WindowTrajectory(s, end, fit.x)
    IN  [i \in DOMAIN trajectory |-> Norm(trajectory[i].velocity)]

\* How often value v occurs in sequence q.
Occurrences(q, v) == Cardinality({k \in 1 .. Len(q) : q[k] = v})

AppendOrders(q) ==
    {[k \in 1 .. Len(q) |-> q[f[k]]] :
        f \in {g \in [1 .. Len(q) -> 1 .. Len(q)] :
                  \A a, b \in 1 .. Len(q) : g[a] = g[b] => a = b}}

RECURSIVE ExactSum(_, _)
ExactSum(q, k) == IF k = 0 THEN 0 ELSE ExactSum(q, k - 1) + q[k]

\* No addition of the left-to-right sum of q rounds.
SumsExact(q) ==
    \A k \in 1 .. Len(q) : RoundDouble(ExactSum(q, k), 1) = ExactSum(q, k)

C11_OneEntryPerKey ==
    pc \in {"write_velocities", "done"} =>
        LET n == Cardinality(DOMAIN integrated_velocities)
        IN  /\ Len(timestamps_usec) = n
            /\ Len(timestamps_sec) = n
            /\ Len(averaged_integrated_velocities) = n
            /\ Len(smoothed_velocities) = n
            /\ \E keys \in [1 .. n -> DOMAIN integrated_velocities] :
                  /\ \A a, b \in 1 .. n : a < b => keys[a] < keys[b]
                  /\ \A k \in 1 .. n :
                        /\ timestamps_usec[k] =
                               MergedEventTimeUsec(rotations, keys[k])
                        /\ timestamps_sec[k] =
                               timestamps_usec[k] - timestamps_usec[1]
                        /\ averaged_integrated_velocities[k] =
                               AverageVelocity(integrated_velocities[keys[k]])
            /\ \A a, b \in 1 .. n : a < b => timestamps_usec[a] < timestamps_usec[b]
            /\ n > 0 => timestamps_sec[1] = 0
            /\ pc = "done" =>
                  /\ Len(velocities_out.data) = n
                  /\ \A k \in 1 .. n :
                        velocities_out.data[k] =
                            <<timestamps_usec[k], smoothed_velocities[k]>>

C11_Witness ==
    /\ pc = "done"
    /\ Cardinality(DOMAIN integrated_velocities) = 3
    /\ Len(velocities_out.data) = 3
    /\ Len(integrated_velocities[2]) = 2

\* The window [s, e) is one the loop visits: it starts at a multiple of the
\* stride, is not empty, lies in [0, n) and ends at min(s + window_size, n).
WindowInRange(s, e) ==
    /\ s % flags.locations_shift_step = 0
    /\ 0 <= s
    /\ s < e
    /\ e <= NumGps
    /\ e = Min(s + flags.locations_batch_size, NumGps)

\* The windows to look at: the logged ones and the one being processed.
WindowsSeen ==
    {<<windows[k].start, windows[k].end>> : k \in 1 .. Len(windows)}
        \cup (IF pc \in {"fit", "store"}
              THEN {<<reference_start_idx, reference_end_idx>>} ELSE {})

\* C12 as stated.  Window shape: every processed window is in range and has
\* exactly window_size samples unless it is the final window.
C12_OnlyFinalWindowClipped ==
    \A w \in WindowsSeen :
        /\ WindowInRange(w[1], w[2])
        /\ \/ w[2] - w[1] = flags.locations_batch_size
           \/ w[1] + flags.locations_shift_step >= NumGps

\* C12 as amended.  Window shape: every processed window is in range and has
\* exactly window_size samples unless start + window_size exceeds n; such a
\* window is clipped to end at n, and the final window is not the only one
\* that can be.
C12_TrailingWindowsClipped ==
    \A w \in WindowsSeen :
        /\ WindowInRange(w[1], w[2])
        /\ IF w[1] + flags.locations_batch_size > NumGps
           THEN w[2] = NumGps /\ w[2] - w[1] < flags.locations_batch_size
           ELSE w[2] - w[1] = flags.locations_batch_size

C12_Witness ==
    /\ pc = "merge"
    /\ NumGps = 3
    /\ flags.locations_batch_size = 2
    /\ flags.locations_shift_step = 1
    /\ Len(windows) = 3
    /\ windows[2].end - windows[2].start = 2
    /\ windows[3].end - windows[3].start = 1

\* ---------------------------------------------- TargetVoltageSmoother claims
\* C13.  The ramp is rate-limited: a step() call changes current_offset_ by
\* at most one unit, only when it differs from target_offset_ and only towards
\* it; a step() call that changes it comes after at least
\* steps_per_adjustment_level step() calls that left it unchanged; and no
\* set_target_offset or update_measurments call, however interleaved, changes
\* it.
C13_RampRateLimited ==
    [][LET current == voltage_state_.current_offset_
           target == voltage_state_.target_offset_
           moved == voltage_state_.current_offset_'
       IN  /\ moved # current => Step
           /\ (Step /\ moved # current) =>
                 /\ target # current
                 /\ Abs(moved - current) = 1
                 /\ Abs(target - moved) < Abs(target - current)
                 /\ unchanged_steps >=
                        steering_spoof_settings_.steps_per_adjustment_level]_vars

\* The offset has been moved twice, the second time right after
\* steps_per_adjustment_level = MaxSteps calls that left it unchanged.
C13_Witness ==
    /\ steering_spoof_settings_.steps_per_adjustment_level = MaxSteps
    /\ voltage_state_.current_offset_ = -2
    /\ voltage_state_.target_offset_ = -2
    /\ steps_spent_at_current_offset_ = 0
    /\ unchanged_steps = 0

\* Both offsets are zero.
Neutral ==
    voltage_state_.target_offset_ = 0 /\ voltage_state_.current_offset_ = 0

\* steps_at_target_level + steps_per_adjustment_level.
HoldThreshold ==
    steering_spoof_settings_.steps_at_target_level
        + steering_spoof_settings_.steps_per_adjustment_level

\* C14.  The smoother returns to neutral: with steps_at_target_level +
\* steps_per_adjustment_level < UINT16_MAX, once set_target_offset is not
\* called any more and step() keeps being called, target_offset_ and
\* current_offset_ eventually are 0 and stay 0.
C14_ReturnsToNeutral ==
    []((~accepting_commands /\ HoldThreshold < UINT16_MAX) => <>[]Neutral)

\* step() has just reset the target of an offset that was held for
\* steps_at_target_level = MaxSteps calls, after the last command.
C14_Witness ==
    /\ ~accepting_commands
    /\ HoldThreshold < UINT16_MAX
    /\ steering_spoof_settings_.steps_at_target_level = MaxSteps
    /\ voltage_state_.target_offset_ = 0
    /\ voltage_state_.current_offset_ = MaxMagnitude
    /\ steps_spent_at_current_offset_ = HoldThreshold + 1

\* C15.  Hold time: a step() call resets a nonzero target_offset_ to 0 only
\* after at least steps_at_target_level step() calls have been made since
\* current_offset_ came to equal it, by a step() that moved it there or by a
\* set_target_offset call, which restarts the count when it re-issues the
\* target that is being held.
C15_HoldTime ==
    [][(/\ Step
        /\ voltage_state_.target_offset_ # 0
        /\ voltage_state_.target_offset_' = 0) =>
           held_steps >= steering_spoof_settings_.steps_at_target_level]_vars

\* A target re-issued after steps_per_adjustment_level calls has been held
\* for steps_at_target_level more calls: the next step() resets it.
C15_Witness ==
    /\ Holding(voltage_state_)
    /\ steering_spoof_settings_.steps_per_adjustment_level = MaxSteps
    /\ steering_spoof_settings_.steps_at_target_level = MaxSteps
    /\ held_steps = MaxSteps
    /\ steps_spent_at_current_offset_ = HoldThreshold

\* C16.  The offsets are bounded: from zero offsets and with
\* max_steering_magnitude >= 0, after any sequence of set_target_offset (with
\* any int16_t argument), step and update_measurments calls, target_offset_
\* and current_offset_ lie in [-max_steering_magnitude, max_steering_magnitude].
C16_OffsetsBounded ==
    LET magnitude == steering_spoof_settings_.max_steering_magnitude
    IN  /\ -magnitude <= voltage_state_.target_offset_
        /\ voltage_state_.target_offset_ <= magnitude
        /\ -magnitude <= voltage_state_.current_offset_
        /\ voltage_state_.current_offset_ <= magnitude

\* The offset was ramped to one end of the range and the target then set to
\* the other end, with a magnitude below the int16_t extremes.
C16_Witness ==
    /\ steering_spoof_settings_.max_steering_magnitude = 1
    /\ voltage_state_.current_offset_ = 1
    /\ voltage_state_.target_offset_ = -1

\* C17 as stated.  get_target_offset() returns target_offset_ in every
\* reachable state, also while current_offset_ has not reached it.
C17_GetTargetOffsetIsTarget ==
    GetTargetOffset = voltage_state_.target_offset_

\* v clamped to the range of uint16_t.
Saturated(v) == Min(Max(v, 0), UINT16_MAX)

\* The offsets current_offset_ can take for some max_steering_magnitude:
\* constrain() keeps it in [-INT16_MAX, INT16_MAX].
ReachableOffsets == -INT16_MAX .. INT16_MAX

\* add_offset as the two getters call it, for every voltage and offset.
AddOffsetSaturates ==
    \A v \in Uint16, c \in ReachableOffsets :
        /\ AddOffset(v, c) = Saturated(v + c)
        /\ AddOffset(v, ToInt16(-c)) = Saturated(v - c)

\* C18.  The target voltages saturate and never wrap: for every uint16_t
\* smoothed voltage v and every reachable current_offset_ c the green target
\* is v + c and the blue target v - c, each clamped to [0, UINT16_MAX]; so
\* are the values the two getters return.
C18_TargetVoltagesSaturate ==
    LET c == voltage_state_.current_offset_
    IN  /\ c \in ReachableOffsets
        /\ AddOffsetSaturates
        /\ GetTargetGreenVoltage =
               Saturated(voltage_state_.smoothed_green_voltage_ + c)
        /\ GetTargetBlueVoltage =
               Saturated(voltage_state_.smoothed_blue_voltage_ - c)

\* Both getters saturate: green at UINT16_MAX, blue at 0.
C18_Witness ==
    /\ voltage_state_.current_offset_ = MaxMagnitude
    /\ voltage_state_.smoothed_green_voltage_ = UINT16_MAX
    /\ voltage_state_.smoothed_blue_voltage_ = 0
    /\ GetTargetGreenVoltage = UINT16_MAX
    /\ GetTargetBlueVoltage = 0

====
